---- MODULE Spec2Model ----
(***************************************************************************)
(* Model of src/src/tokenizer/Layer.js: the layer transform-and-mask       *)
(* compositing pipeline.  A raster is a W x W grid of RGBA pixels with     *)
(* binary alpha; drawImage is nearest-neighbour on whole cells; rotations  *)
(* are whole quarter turns.  The view (layer stack, maskIds), the ray mask *)
(* generator, Utils.cloneCanvas and Color.isNeighborColor are collaborators*)
(* whose code is outside Layer.js; they are modelled from the spec.        *)
(***************************************************************************)
EXTENDS Integers, Sequences, FiniteSets, TLC

VARIABLES
    layer,      \* id -> Layer object (every layer constructed so far)
    layers,     \* view.layers: ids, bottom of the stack first
    maskIds,    \* view.maskIds: ids in insertion order
    rayMask,    \* game.settings "default-algorithm"
    lastOp,     \* the call that produced this state: [op, id, ok]; ok = it returned
    callsLeft   \* calls the run may still make

vars == <<layer, layers, maskIds, rayMask, lastOp, callsLeft>>

----------------------------------------------------------------------------
(* Bounds of the model *)

W == 2              \* side of every canvas, in cells
MaxLayers == 3      \* layers the view ever holds
MaxShift == 1       \* |position.x|, |position.y| stay within this
MaxTurns == 1       \* |rotation| stays within MaxTurns quarter turns
MaxCalls == 3       \* calls in one run, any method
MaxStackCalls == 4  \* calls in one run of the compositing methods alone

----------------------------------------------------------------------------
(* Rasters *)

Cells == (0..(W - 1)) \X (0..(W - 1))

Transparent == <<0, 0, 0, 0>>
Black == <<0, 0, 0, 255>>
Red == <<255, 0, 0, 255>>
Green == <<0, 255, 0, 255>>
Blue == <<0, 0, 255, 255>>

\* a missing canvas (null / undefined)
Null == <<>>

Blank == [c \in Cells |-> Transparent]

Opaque(p) == p[4] > 0

\* the decoded image: a red and a green pixel in the top row, the rest clear
TheImage == [c \in Cells |->
    IF c[2] = 0 THEN (IF c[1] = 0 THEN Red ELSE IF c[1] = W - 1 THEN Green ELSE Transparent)
    ELSE Transparent]

\* hand-painted masks the mask editor may hand back
MaskLeft == [c \in Cells |-> IF c[1] = 0 THEN Black ELSE Transparent]
MaskTop == [c \in Cells |-> IF c[2] = 0 THEN Black ELSE Transparent]
CustomMasks == {MaskLeft, MaskTop}

SOURCE_OVER == "source-over"
SOURCE_IN == "source-in"

\* one drawImage / fill of raster src onto dest under a composite operation
Draw(dest, src, op) ==
    [c \in Cells |->
        IF op = SOURCE_IN
        THEN (IF Opaque(src[c]) /\ Opaque(dest[c]) THEN src[c] ELSE Transparent)
        ELSE (IF Opaque(src[c]) THEN src[c] ELSE dest[c])]

Solid(color) == [c \in Cells |-> color]

----------------------------------------------------------------------------
(* Geometry: the affine transform of applyTransformations and the          *)
(* position/scale placement of drawImage, on whole cells                   *)

\* quarter turns of a rotation given in degrees (multiples of 90)
Quarter(rotation) == (rotation \div 90) % 4

\* rotate(90 degrees) about the center: clockwise on the canvas (y points down)
RotCell(q, c) ==
    CASE q = 0 -> c
      [] q = 1 -> <<W - 1 - c[2], c[1]>>
      [] q = 2 -> <<W - 1 - c[1], W - 1 - c[2]>>
      [] q = 3 -> <<c[2], W - 1 - c[1]>>

\* scale(mirror, 1) about the center
MirrorCell(mirror, c) == IF mirror = -1 THEN <<W - 1 - c[1], c[2]>> ELSE c

\* translate(center) scale(mirror,1) rotate(rotation) translate(-center):
\* the user-space cell that lands on device cell d
UserCell(mirror, rotation, d) ==
    RotCell((4 - Quarter(rotation)) % 4, MirrorCell(mirror, d))

\* drawImage(img, x, y, w * scale, h * scale): the image cell shown at cell d
\* (outside Cells when d is not covered)
PlacedCell(position, scale, d) ==
    <<(d[1] - position.x) \div scale, (d[2] - position.y) \div scale>>

Pick(r, u) == IF u \in Cells THEN r[u] ELSE Transparent

\* a cell of no canvas
Outside == <<-1, -1>>

\* raster r drawn at 0,0 on a cleared canvas whose transform is set
Transformed(r, mirror, rotation) ==
    [d \in Cells |-> Pick(r, UserCell(mirror, rotation, d))]

\* redraw: original holds source under the transform, and is then drawn at
\* position with scale.  The source cell displayed at canvas cell d.
DisplayedSourceCell(L, d) ==
    LET e == PlacedCell(L.position, L.scale, d)
    IN IF e \in Cells THEN UserCell(L.mirror, L.rotation, e) ELSE Outside

\* recalculateMask: the mask is drawn at position with scale on a context
\* whose transform is set.  The mask cell placed at renderedMask cell d.
PlacedMaskCell(L, d) ==
    LET u == PlacedCell(L.position, L.scale, UserCell(L.mirror, L.rotation, d))
    IN IF u \in Cells THEN u ELSE Outside

----------------------------------------------------------------------------
(* Collaborators outside Layer.js *)

\* Utils.cloneCanvas: a copy of the same size and content.  It reads its
\* argument, so it throws for null/undefined and for a canvas of size 0.
CloneCanvas(r) == r

\* Color objects: reference colours of the colour key
RedRef == [red |-> 255, green |-> 0, blue |-> 0, alpha |-> 255]
GreenRef == [red |-> 0, green |-> 255, blue |-> 0, alpha |-> 255]
BlueRef == [red |-> 0, green |-> 0, blue |-> 255, alpha |-> 255]
ClearRef == [red |-> 0, green |-> 0, blue |-> 0, alpha |-> 0]
RefColors == {RedRef, GreenRef, BlueRef, ClearRef}

NEIGHBOR_TOLERANCE == 10

Abs(n) == IF n < 0 THEN -n ELSE n

\* Color.isNeighborColor: symmetric, every channel within the tolerance
IsNeighborColor(a, b) ==
    /\ Abs(a.red - b.red) <= NEIGHBOR_TOLERANCE
    /\ Abs(a.green - b.green) <= NEIGHBOR_TOLERANCE
    /\ Abs(a.blue - b.blue) <= NEIGHBOR_TOLERANCE
    /\ Abs(a.alpha - b.alpha) <= NEIGHBOR_TOLERANCE

\* CONSTANTS.TRANSPARENCY_THRESHOLD
TRANSPARENCY_THRESHOLD == 254

\* generateRayMask: an opaque function from a raster to a mask raster;
\* modelled as the black silhouette of the raster
GenerateRayMask(r) ==
    [c \in Cells |-> IF r[c][4] > TRANSPARENCY_THRESHOLD THEN Black ELSE Transparent]

\* the view: layers is the stack, bottom first
InStack(id) == \E i \in 1..Len(layers) : layers[i] = id

IndexOf(id) == CHOOSE i \in 1..Len(layers) : layers[i] = id

\* view.isOriginLayerHigher(originId, targetId): origin sits above target
IsOriginLayerHigher(originId, targetId) ==
    /\ InStack(originId)
    /\ InStack(targetId)
    /\ IndexOf(originId) > IndexOf(targetId)

\* view.getMaskLayer(id): the layer of that id that provides a mask, 0 for none
GetMaskLayer(id) == IF InStack(id) /\ layer[id].providesMask THEN id ELSE 0

----------------------------------------------------------------------------
(* Layer *)

\* fillStyle of a flat-colour layer
ColorPixel(color) == IF color = "#0000ff" THEN Blue ELSE Red

FillColors == {"#0000ff"}

\* constructor: canvas holds the content the factory drew
NewLayer(canvas, img, color) ==
    [ img |-> img,
      canvas |-> canvas,
      source |-> CloneCanvas(canvas),
      preview |-> CloneCanvas(canvas),
      position |-> [x |-> 0, y |-> 0],
      scale |-> 1,
      rotation |-> 0,
      mirror |-> 1,
      flipped |-> FALSE,
      providesMask |-> FALSE,
      renderedMask |-> Blank,
      maskTransform |-> [mirror |-> 1, rotation |-> 0],
      mask |-> Null,
      sourceMask |-> Null,
      maskCompositeOperation |-> SOURCE_IN,
      customMask |-> FALSE,
      appliedMaskIds |-> <<>>,
      customMaskLayers |-> FALSE,
      alpha |-> 1,
      compositeOperation |-> SOURCE_OVER,
      contextOperation |-> SOURCE_OVER,
      color |-> color,
      colorLayer |-> color # "null",
      alphaPixelColors |-> <<>> ]

\* Layer.isTransparent: true for a pixel whose alpha is above the threshold
IsTransparent(pixels, c) == TRANSPARENCY_THRESHOLD < pixels[c][4]

\* geom.contour over Layer.isTransparent followed by the path fill: the black
\* filled outline of the cells the classifier accepts
ContourFill(pixels) ==
    [c \in Cells |-> IF IsTransparent(pixels, c) THEN Black ELSE Transparent]

IsCompletelyTransparent(L) ==
    ~ \E c \in Cells : L.source[c][4] > TRANSPARENCY_THRESHOLD

IsCompletelyOpaque(L) ==
    ~ \E c \in Cells : L.source[c][4] < TRANSPARENCY_THRESHOLD

\* createOriginalMask: the contour mask goes to a new renderedMask canvas;
\* this.mask is not assigned
CreateOriginalMask(L) ==
    [L EXCEPT
        !.renderedMask =
            IF IsCompletelyTransparent(L) THEN Blank
            ELSE IF IsCompletelyOpaque(L) THEN Solid(Black)
            ELSE ContourFill(L.canvas),
        !.maskTransform = [mirror |-> 1, rotation |-> 0]]

\* createMask: [l |-> the layer when the call ends, ok |-> it returned].
\* Without the ray mask this.mask may still be null, and cloneCanvas throws.
CreateMask(L) ==
    IF rayMask
    THEN LET m == GenerateRayMask(L.canvas)
         IN [l |-> [L EXCEPT !.mask = m,
                             !.maskTransform = [mirror |-> 1, rotation |-> 0],
                             !.renderedMask = Draw(L.renderedMask, m, SOURCE_OVER),
                             !.sourceMask = CloneCanvas(m)],
             ok |-> TRUE]
    ELSE LET L1 == CreateOriginalMask(L)
         IN IF L1.mask = Null
            THEN [l |-> L1, ok |-> FALSE]
            ELSE [l |-> [L1 EXCEPT !.sourceMask = CloneCanvas(L1.mask)], ok |-> TRUE]

\* the pixel handed to isNeighborColor: green and blue channels are swapped
PixelColor(p) == [red |-> p[1], blue |-> p[2], green |-> p[3], alpha |-> p[4]]

\* the colour key clearing the colour channels but not alpha
KeyOut_KeepsAlpha(r, color) ==
    [c \in Cells |->
        IF IsNeighborColor(color, PixelColor(r[c])) THEN <<0, 0, 0, r[c][4]>> ELSE r[c]]

\* one pass of the colour key for one reference colour
KeyOut(r, color) ==
    [c \in Cells |-> IF IsNeighborColor(color, PixelColor(r[c])) THEN <<0, 0, 0, 0>> ELSE r[c]]

RECURSIVE KeyOutAll(_, _)
KeyOutAll(r, colors) ==
    IF colors = <<>> THEN r
    ELSE KeyOutAll(KeyOut(r, Head(colors)), Tail(colors))

\* applyTransparentPixels on a context whose canvas holds r
ApplyTransparentPixels(r, colors) ==
    IF Len(colors) = 0 THEN r ELSE KeyOutAll(r, colors)

\* redraw drawing every resolved mask, above or below, in either mode
Providers_AnyMask(L, id) ==
    LET ids == IF L.customMaskLayers THEN L.appliedMaskIds ELSE maskIds
        applies(m) == GetMaskLayer(m) # 0
    IN SelectSeq(ids, applies)

\* redraw keeping the stack-order test in both modes
Providers_OnlyHigher(L, id) ==
    LET ids == IF L.customMaskLayers THEN L.appliedMaskIds ELSE maskIds
        applies(m) == GetMaskLayer(m) # 0 /\ IsOriginLayerHigher(m, id)
    IN SelectSeq(ids, applies)

\* redraw: the ids iterated, in iteration order, whose mask is drawn
Providers(L, id) ==
    LET ids == IF L.customMaskLayers THEN L.appliedMaskIds ELSE maskIds
        applies(m) == /\ GetMaskLayer(m) # 0
                      /\ (L.customMaskLayers
                             \/ (~L.customMaskLayers /\ IsOriginLayerHigher(m, id)))
    IN SelectSeq(ids, applies)

\* the renderedMask a layer reads from a peer (or from itself)
RenderedMaskOf(L, id, m) == IF m = id THEN L.renderedMask ELSE layer[m].renderedMask

\* the mask loop of redraw on the live context: [r |-> canvas, op |-> its
\* globalCompositeOperation]
RECURSIVE DrawMasks(_, _, _, _)
DrawMasks(acc, provs, L, id) ==
    IF provs = <<>> THEN acc
    ELSE DrawMasks([r |-> Draw(acc.r, RenderedMaskOf(L, id, Head(provs)), acc.op),
                    op |-> L.maskCompositeOperation],
                   Tail(provs), L, id)

\* the second forEach of redraw for one target context
DrawContent(L, target) ==
    IF L.colorLayer
    THEN [r |-> Draw(target.r, Solid(ColorPixel(L.color)), target.op), op |-> target.op]
    ELSE LET placed == [d \in Cells |-> Pick(L.source, DisplayedSourceCell(L, d))]
         IN [r |-> ApplyTransparentPixels(Draw(target.r, placed, target.op),
                                          L.alphaPixelColors),
             op |-> target.op]

\* the first forEach without the assignment of globalCompositeOperation
StartTarget_KeepsOperation(L) == [r |-> Blank, op |-> L.contextOperation]

\* the first forEach of redraw: both targets cleared, operation reset
StartTarget(L) == [r |-> Blank, op |-> L.compositeOperation]

\* redraw with the mask loop applied to the preview as well
Redraw_MasksPreview(L, id) ==
    LET live == DrawContent(L, DrawMasks(StartTarget(L), Providers(L, id), L, id))
    IN [L EXCEPT !.canvas = live.r,
                 !.contextOperation = live.op,
                 !.preview = live.r]

Redraw(L, id) ==
    LET live == DrawContent(L, DrawMasks(StartTarget(L), Providers(L, id), L, id))
        prev == DrawContent(L, StartTarget(L))
    IN [L EXCEPT !.canvas = live.r,
                 !.contextOperation = live.op,
                 !.preview = prev.r]

\* static fromImage: the image covers the square canvas; createMask, then
\* redraw.  [l, ok]: createMask may throw, and then no layer is returned.
FromImage(id) ==
    LET made == CreateMask(NewLayer(TheImage, "img", "null"))
    IN IF made.ok THEN [l |-> Redraw(made.l, id), ok |-> TRUE] ELSE made

\* setColor: fills the live canvas through its context, whose composite
\* operation is whatever the last redraw left, and re-clones source from it
SetColor(L, hexColorString) ==
    IF ~L.colorLayer THEN L
    ELSE LET filled == Draw(L.canvas, Solid(ColorPixel(hexColorString)), L.contextOperation)
         IN [L EXCEPT !.color = hexColorString,
                      !.canvas = filled,
                      !.source = CloneCanvas(filled)]

\* static fromColor
FromColor(color) == SetColor(NewLayer(Blank, "null", color), color)

\* the rebuild without the providesMask test
AutomaticMaskIds_AnyHigher(id) ==
    LET applies(m) == IsOriginLayerHigher(m, id)
    IN SelectSeq(layers, applies)

\* resetMasks / reset: appliedMaskIds rebuilt by view.layers.forEach
AutomaticMaskIds(id) ==
    LET applies(m) == layer[m].providesMask /\ IsOriginLayerHigher(m, id)
    IN SelectSeq(layers, applies)

\* recalculateMask without the customMask test
RecalculateMask_IgnoresCustomMask(L) ==
    IF L.mask # Null
    THEN [L EXCEPT
            !.maskTransform = [mirror |-> L.mirror, rotation |-> L.rotation],
            !.renderedMask = [d \in Cells |-> Pick(L.mask, PlacedMaskCell(L, d))]]
    ELSE L

\* recalculateMask
RecalculateMask(L) ==
    IF L.mask # Null /\ ~L.customMask
    THEN [L EXCEPT
            !.maskTransform = [mirror |-> L.mirror, rotation |-> L.rotation],
            !.renderedMask = [d \in Cells |-> Pick(L.mask, PlacedMaskCell(L, d))]]
    ELSE L

\* applyCustomMask: drawn over what renderedMask holds, through its context
\* as the last recalculateMask left it
ApplyCustomMask(L, mask) ==
    [L EXCEPT
        !.customMask = TRUE,
        !.mask = mask,
        !.renderedMask =
            Draw(L.renderedMask,
                 Transformed(mask, L.maskTransform.mirror, L.maskTransform.rotation),
                 SOURCE_OVER)]

\* resetMasks: [l, ok]; cloneCanvas(this.sourceMask) throws when createMask
\* never completed on this layer
ResetMasks(L, id) ==
    LET L1 == [L EXCEPT !.customMaskLayers = FALSE,
                        !.appliedMaskIds = AutomaticMaskIds(id),
                        !.compositeOperation = SOURCE_OVER,
                        !.maskCompositeOperation = SOURCE_IN,
                        !.customMask = FALSE]
    IN IF L1.sourceMask = Null
       THEN [l |-> L1, ok |-> FALSE]
       ELSE [l |-> Redraw([L1 EXCEPT !.mask = CloneCanvas(L1.sourceMask)], id),
             ok |-> TRUE]

\* reset: [l, ok]
Reset(L, id) ==
    LET scale == W \div W
        L1 == [L EXCEPT !.customMaskLayers = FALSE,
                        !.appliedMaskIds = AutomaticMaskIds(id),
                        !.alphaPixelColors = <<>>,
                        !.compositeOperation = SOURCE_OVER,
                        !.maskCompositeOperation = SOURCE_IN,
                        !.scale = scale,
                        !.rotation = 0,
                        !.position = [x |-> (W - (W * scale)) \div 2,
                                      y |-> (W - (W * scale)) \div 2],
                        !.mask = Null,
                        !.customMask = FALSE]
        made == CreateMask(Redraw(L1, id))
    IN IF made.ok THEN [l |-> RecalculateMask(made.l), ok |-> TRUE] ELSE made

Translate(L, dx, dy) ==
    [L EXCEPT !.position = [x |-> L.position.x - dx, y |-> L.position.y - dy]]

SetScale(L, factor) == [L EXCEPT !.scale = factor]

Rotate(L, degree) == [L EXCEPT !.rotation = L.rotation + (degree * 2)]

\* flip setting the mirror instead of toggling it
Flip_SetsMirror(L, id) ==
    Redraw([L EXCEPT !.mirror = -1, !.flipped = TRUE], id)

Flip(L, id) ==
    Redraw([L EXCEPT !.mirror = L.mirror * (-1), !.flipped = ~L.flipped], id)

AddTransparentColour(L, color) ==
    IF \E i \in 1..Len(L.alphaPixelColors) : L.alphaPixelColors[i] = color
    THEN L
    ELSE [L EXCEPT !.alphaPixelColors = Append(L.alphaPixelColors, color)]

\* clone: [n |-> the new layer, l |-> this layer afterwards, ok].  Lines 111
\* and 112 assign the copies of sourceMask and renderedMask to this, not to
\* the new layer.  A flat-colour layer passes canvasWidth/canvasHeight to
\* fromColor, which reads width/height: a canvas of size 0, and the
\* constructor's cloneCanvas throws.
Clone(L, newId) ==
    IF L.img = "null"
    THEN [n |-> L, l |-> L, ok |-> FALSE]
    ELSE LET made == FromImage(newId)
         IN IF ~made.ok
            THEN [n |-> L, l |-> L, ok |-> FALSE]
            ELSE [n |-> [made.l EXCEPT
                            !.scale = L.scale,
                            !.rotation = L.rotation,
                            !.position = L.position,
                            !.mirror = L.mirror,
                            !.flipped = L.flipped,
                            !.alpha = L.alpha,
                            !.mask = IF L.mask # Null THEN CloneCanvas(L.mask) ELSE made.l.mask,
                            !.customMask = L.customMask,
                            !.customMaskLayers = L.customMaskLayers,
                            !.appliedMaskIds = L.appliedMaskIds,
                            !.compositeOperation = L.compositeOperation,
                            !.maskCompositeOperation = L.maskCompositeOperation,
                            !.alphaPixelColors = L.alphaPixelColors],
                  l |-> [L EXCEPT
                            !.sourceMask = IF L.sourceMask # Null
                                           THEN CloneCanvas(L.sourceMask) ELSE L.sourceMask,
                            !.renderedMask = CloneCanvas(L.renderedMask),
                            !.maskTransform = [mirror |-> 1, rotation |-> 0]],
                  ok |-> TRUE]

----------------------------------------------------------------------------
(* The state machine: one action per call *)

Ids == 1..Len(layer)

Called(op, id, ok) ==
    /\ lastOp' = [op |-> op, id |-> id, ok |-> ok]
    /\ callsLeft > 0
    /\ callsLeft' = callsLeft - 1

\* an empty view
EmptyView ==
    /\ layer = <<>>
    /\ layers = <<>>
    /\ maskIds = <<>>
    /\ rayMask \in BOOLEAN
    /\ lastOp = [op |-> "new", id |-> 0, ok |-> TRUE]

Init == EmptyView /\ callsLeft = MaxCalls

InitStack == EmptyView /\ callsLeft = MaxStackCalls

\* the view adds the layer a factory returned on top of the stack and, when
\* asked to, activates its mask
AddToView(L, masked) ==
    LET id == Len(layer) + 1
    IN /\ layer' = Append(layer, [L EXCEPT !.providesMask = masked])
       /\ layers' = Append(layers, id)
       /\ maskIds' = IF masked THEN Append(maskIds, id) ELSE maskIds

AddImageLayer(masked) ==
    /\ Len(layer) < MaxLayers
    /\ LET made == FromImage(Len(layer) + 1)
       IN IF made.ok
          THEN AddToView(made.l, masked) /\ Called("fromImage", Len(layer) + 1, TRUE)
          ELSE UNCHANGED <<layer, layers, maskIds>> /\ Called("fromImage", 0, FALSE)
    /\ UNCHANGED rayMask

AddColorLayer(color, masked) ==
    /\ Len(layer) < MaxLayers
    /\ AddToView(FromColor(color), masked)
    /\ Called("fromColor", Len(layer) + 1, TRUE)
    /\ UNCHANGED rayMask

\* view.deactivateMask
DeactivateMask(id) ==
    /\ layer[id].providesMask
    /\ layer' = [layer EXCEPT ![id].providesMask = FALSE]
    /\ maskIds' = SelectSeq(maskIds, LAMBDA m : m # id)
    /\ Called("deactivateMask", id, TRUE)
    /\ UNCHANGED <<layers, rayMask>>

\* the mask-layer picker of the UI: an explicit choice of mask layers
SetCustomMaskLayers(id, ids) ==
    /\ layer' = [layer EXCEPT ![id].customMaskLayers = TRUE,
                               ![id].appliedMaskIds = ids]
    /\ Called("setCustomMaskLayers", id, TRUE)
    /\ UNCHANGED <<layers, maskIds, rayMask>>

\* a method that always returns
Returns(op, id, L) ==
    /\ layer' = [layer EXCEPT ![id] = L]
    /\ Called(op, id, TRUE)
    /\ UNCHANGED <<layers, maskIds, rayMask>>

\* a method that may throw part-way
Ends(op, id, res) ==
    /\ layer' = [layer EXCEPT ![id] = res.l]
    /\ Called(op, id, res.ok)
    /\ UNCHANGED <<layers, maskIds, rayMask>>

DoRedraw(id) == Returns("redraw", id, Redraw(layer[id], id))

DoRecalculateMask(id) == Returns("recalculateMask", id, RecalculateMask(layer[id]))

DoApplyCustomMask(id, mask) ==
    Returns("applyCustomMask", id, ApplyCustomMask(layer[id], mask))

DoResetMasks(id) == Ends("resetMasks", id, ResetMasks(layer[id], id))

DoReset(id) == Ends("reset", id, Reset(layer[id], id))

DoTranslate(id, dx, dy) ==
    /\ layer[id].position.x - dx \in (-MaxShift)..MaxShift
    /\ layer[id].position.y - dy \in (-MaxShift)..MaxShift
    /\ Returns("translate", id, Translate(layer[id], dx, dy))

DoSetScale(id, factor) ==
    /\ layer[id].scale # factor
    /\ Returns("setScale", id, SetScale(layer[id], factor))

DoRotate(id, degree) ==
    /\ layer[id].rotation + (degree * 2) \in (-90 * MaxTurns)..(90 * MaxTurns)
    /\ Returns("rotate", id, Rotate(layer[id], degree))

DoFlip(id) == Returns("flip", id, Flip(layer[id], id))

DoAddTransparentColour(id, color) ==
    Returns("addTransparentColour", id, AddTransparentColour(layer[id], color))

DoSetColor(id, color) ==
    /\ layer[id].colorLayer
    /\ Returns("setColor", id, SetColor(layer[id], color))

DoClone(id) ==
    /\ Len(layer) < MaxLayers
    /\ LET res == Clone(layer[id], Len(layer) + 1)
       IN IF res.ok
          THEN /\ layer' = Append([layer EXCEPT ![id] = res.l], res.n)
               /\ layers' = Append(layers, Len(layer) + 1)
          ELSE UNCHANGED <<layer, layers>>
    /\ Called("clone", id, Clone(layer[id], Len(layer) + 1).ok)
    /\ UNCHANGED <<maskIds, rayMask>>

Range(seq) == {seq[i] : i \in 1..Len(seq)}

\* inputs
Deltas == {<<1, 0>>, <<-1, 0>>, <<0, 1>>, <<0, -1>>}
Factors == {1, 2}
Degrees == {45, -45}
KeyColors == {RedRef}

\* explicit mask choices: one or two distinct active masks, in either order
MaskChoices ==
    {<<a>> : a \in Range(maskIds)}
        \cup ({<<a, b>> : a, b \in Range(maskIds)} \ {<<a, a>> : a \in Ids})

\* every method, on any layer
Next ==
    \/ \E masked \in BOOLEAN : AddImageLayer(masked)
    \/ \E color \in FillColors, masked \in BOOLEAN : AddColorLayer(color, masked)
    \/ \E id \in Ids : DeactivateMask(id)
    \/ \E id \in Ids, ids \in MaskChoices : SetCustomMaskLayers(id, ids)
    \/ \E id \in Ids : DoRedraw(id)
    \/ \E id \in Ids : DoRecalculateMask(id)
    \/ \E id \in Ids, mask \in CustomMasks : DoApplyCustomMask(id, mask)
    \/ \E id \in Ids : DoResetMasks(id)
    \/ \E id \in Ids : DoReset(id)
    \/ \E id \in Ids, d \in Deltas : DoTranslate(id, d[1], d[2])
    \/ \E id \in Ids, factor \in Factors : DoSetScale(id, factor)
    \/ \E id \in Ids, degree \in Degrees : DoRotate(id, degree)
    \/ \E id \in Ids : DoFlip(id)
    \/ \E id \in Ids, color \in KeyColors : DoAddTransparentColour(id, color)
    \/ \E id \in Ids, color \in FillColors : DoSetColor(id, color)
    \/ \E id \in Ids : DoClone(id)

Spec == Init /\ [][Next]_vars

\* the compositing methods alone (membership, redraw, resets, flip, colour
\* key), one call deeper
NextStack ==
    \/ \E masked \in BOOLEAN : AddImageLayer(masked)
    \/ \E color \in FillColors, masked \in BOOLEAN : AddColorLayer(color, masked)
    \/ \E id \in Ids : DeactivateMask(id)
    \/ \E id \in Ids, ids \in MaskChoices : SetCustomMaskLayers(id, ids)
    \/ \E id \in Ids : DoRedraw(id)
    \/ \E id \in Ids : DoResetMasks(id)
    \/ \E id \in Ids : DoReset(id)
    \/ \E id \in Ids : DoFlip(id)
    \/ \E id \in Ids, color \in KeyColors : DoAddTransparentColour(id, color)

SpecStack == InitStack /\ [][NextStack]_vars

----------------------------------------------------------------------------
(* Properties *)

NoDuplicates(seq) == \A i, j \in 1..Len(seq) : seq[i] = seq[j] => i = j

\* the mask-providing layers the stack places above layer id
HigherProviders(id) ==
    {m \in Range(layers) : layer[m].providesMask /\ IsOriginLayerHigher(m, id)}

SameTransform(A, B) ==
    /\ A.position = B.position
    /\ A.scale = B.scale
    /\ A.rotation = B.rotation
    /\ A.mirror = B.mirror

\* C1: once customMask is set, recalculateMask leaves mask and renderedMask as
\* they are, whatever the transform state; translate, setScale, rotate, flip,
\* redraw and recalculateMask keep the flag; reset and resetMasks clear it.
C1_CustomMaskPrecedence ==
    \A id \in Ids :
        LET L == layer[id]
        IN L.customMask =>
            /\ RecalculateMask(L).mask = L.mask
            /\ RecalculateMask(L).renderedMask = L.renderedMask
            /\ RecalculateMask(L).customMask
            /\ Redraw(L, id).customMask
            /\ Flip(L, id).customMask
            /\ \A d \in Deltas : Translate(L, d[1], d[2]).customMask
            /\ \A f \in Factors : SetScale(L, f).customMask
            /\ \A g \in Degrees : Rotate(L, g).customMask
            /\ ~Reset(L, id).l.customMask
            /\ ~ResetMasks(L, id).l.customMask

\* a custom mask is installed and recalculateMask has just run and left a
\* renderedMask that is not the projection of the mask
C1_Witness ==
    \E id \in Ids :
        /\ lastOp = [op |-> "recalculateMask", id |-> id, ok |-> TRUE]
        /\ layer[id].customMask
        /\ layer[id].mask \in CustomMasks
        /\ layer[id].renderedMask #
              [d \in Cells |-> Pick(layer[id].mask, PlacedMaskCell(layer[id], d))]

\* C2: with customMaskLayers false, the layers whose renderedMask redraw draws
\* are exactly the mask-providing layers of the stack that sit above the layer.
C2_DefaultMembership ==
    \A id \in Ids :
        ~layer[id].customMaskLayers =>
            /\ Range(Providers(layer[id], id)) = HigherProviders(id)
            /\ NoDuplicates(Providers(layer[id], id))

\* stack [A, B, C], A and C provide masks, B was just redrawn with C only
C2_Witness ==
    /\ layers = <<1, 2, 3>>
    /\ layer[1].providesMask /\ ~layer[2].providesMask /\ layer[3].providesMask
    /\ ~layer[2].customMaskLayers
    /\ lastOp = [op |-> "redraw", id |-> 2, ok |-> TRUE]
    /\ Providers(layer[2], 2) = <<3>>

C4_CloneIsDeepCopy ==
    (lastOp.op = "clone" /\ lastOp.ok) =>
        LET L == layer[lastOp.id]
            n == layer[Len(layer)]
        IN /\ SameTransform(n, L)
           /\ n.alpha = L.alpha
           /\ n.customMask = L.customMask
           /\ n.customMaskLayers = L.customMaskLayers
           /\ n.appliedMaskIds = L.appliedMaskIds
           /\ n.alphaPixelColors = L.alphaPixelColors
           /\ n.mask = L.mask
           /\ n.sourceMask = L.sourceMask
           /\ n.renderedMask = L.renderedMask

\* C5: two flips restore mirror and flipped, touch no other transform field,
\* and leave the live raster a redraw of the starting state produces.
C5_MirrorRoundTrip ==
    \A id \in Ids :
        LET L == layer[id]
            F1 == Flip(L, id)
            F2 == Flip(F1, id)
        IN /\ F1.mirror = -L.mirror
           /\ F2.mirror = L.mirror
           /\ F2.flipped = L.flipped
           /\ SameTransform(F2, L)
           /\ F2.canvas = Redraw(L, id).canvas

\* an image layer flipped twice in a row, back at mirror +1, whose raster a
\* single flip would change
C5_Witness ==
    \E id \in Ids :
        /\ lastOp = [op |-> "flip", id |-> id, ok |-> TRUE]
        /\ layer[id].mirror = 1 /\ ~layer[id].flipped
        /\ ~layer[id].colorLayer
        /\ Flip(layer[id], id).canvas # layer[id].canvas

\* C6: a second redraw with no change in between yields the same live and
\* preview rasters, and redraw changes no transform field, membership or mask.
C6_RedrawIdempotent ==
    \A id \in Ids :
        LET L == layer[id]
            R1 == Redraw(L, id)
            R2 == Redraw(R1, id)
        IN /\ R2.canvas = R1.canvas
           /\ R2.preview = R1.preview
           /\ SameTransform(R1, L)
           /\ R1.appliedMaskIds = L.appliedMaskIds
           /\ R1.mask = L.mask
           /\ R1.sourceMask = L.sourceMask
           /\ R1.renderedMask = L.renderedMask

\* a layer with a colour key was just redrawn under a mask and shows pixels
C6_Witness ==
    \E id \in Ids :
        /\ lastOp = [op |-> "redraw", id |-> id, ok |-> TRUE]
        /\ Providers(layer[id], id) # <<>>
        /\ layer[id].alphaPixelColors # <<>>
        /\ layer[id].canvas # Blank
        /\ layer[id].contextOperation = SOURCE_IN

\* the rasters the colour key runs over: the two drawn canvases and the source
RastersOf(L) == {L.canvas, L.preview, L.source}

\* C7: a second pass of the colour key with the same colour changes no pixel,
\* and every pixel a pass changes becomes (0,0,0,0).
C7_ColorKeyConverges ==
    \A id \in Ids : \A r \in RastersOf(layer[id]) : \A color \in RefColors :
        LET once == ApplyTransparentPixels(r, <<color>>)
            twice == ApplyTransparentPixels(once, <<color>>)
        IN /\ twice = once
           /\ \A c \in Cells : once[c] # r[c] => once[c] = <<0, 0, 0, 0>>

\* a redraw has just keyed a pixel out of the live raster
C7_Witness ==
    \E id \in Ids :
        /\ lastOp = [op |-> "redraw", id |-> id, ok |-> TRUE]
        /\ layer[id].alphaPixelColors = <<RedRef>>
        /\ \E c \in Cells :
              /\ layer[id].canvas[c] = <<0, 0, 0, 0>>
              /\ Redraw([layer[id] EXCEPT !.alphaPixelColors = <<>>], id).canvas[c] = Red

\* C8 as stated: every redraw leaves the live and the preview raster equal.
C8_LivePreviewLockstep ==
    \A id \in Ids :
        (lastOp = [op |-> "redraw", id |-> id, ok |-> TRUE]) =>
            layer[id].canvas = layer[id].preview

\* C8 amended: the masks and the switch to maskCompositeOperation go to the
\* live raster only.  The preview is what the live raster would be with no
\* provider, so the two are equal when redraw resolves no provider.
C8_PreviewIsUnmasked ==
    \A id \in Ids :
        LET L == layer[id]
            R == Redraw(L, id)
            plain == Redraw([L EXCEPT !.customMaskLayers = TRUE,
                                      !.appliedMaskIds = <<>>], id)
        IN /\ R.preview = plain.canvas
           /\ Providers(L, id) = <<>> => R.canvas = R.preview

\* a redraw under a provider has just left the two rasters different
C8_Witness ==
    \E id \in Ids :
        /\ lastOp = [op |-> "redraw", id |-> id, ok |-> TRUE]
        /\ Providers(layer[id], id) # <<>>
        /\ layer[id].canvas # layer[id].preview

\* C9: on an image layer with its own mask, redraw displays source cell p
\* where recalculateMask places mask cell p, whatever the transform state.
C9_MaskRegistered ==
    \A id \in Ids :
        (~layer[id].colorLayer /\ layer[id].mask # Null /\ ~layer[id].customMask) =>
            \A d \in Cells :
                DisplayedSourceCell(layer[id], d) = PlacedMaskCell(layer[id], d)

\* ids of seq in the order view.layers holds them
InStackOrder(seq) == SelectSeq(layers, LAMBDA m : m \in Range(seq))

\* C10 as stated: with customMaskLayers the masks drawn are exactly
\* appliedMaskIds, in stack order, and the running operation is
\* maskCompositeOperation once a mask is drawn.
C10_CustomInStackOrder ==
    \A id \in Ids :
        layer[id].customMaskLayers =>
            LET L == layer[id]
            IN /\ Range(Providers(L, id)) = Range(L.appliedMaskIds)
               /\ Providers(L, id) = InStackOrder(Providers(L, id))
               /\ Providers(L, id) # <<>> =>
                     Redraw(L, id).contextOperation = L.maskCompositeOperation

\* C10 amended: the masks drawn are the members of appliedMaskIds the view
\* resolves to a mask layer, above or below, in the order appliedMaskIds
\* iterates them (the order they were added).
C10_CustomMembership ==
    \A id \in Ids :
        layer[id].customMaskLayers =>
            LET L == layer[id]
                resolved == SelectSeq(L.appliedMaskIds, LAMBDA m : GetMaskLayer(m) # 0)
            IN /\ Providers(L, id) = resolved
               /\ Redraw(L, id).contextOperation =
                     IF resolved = <<>> THEN L.compositeOperation
                     ELSE L.maskCompositeOperation

\* a redraw has just drawn two chosen masks, the upper one first
C10_Witness ==
    \E id \in Ids :
        /\ lastOp = [op |-> "redraw", id |-> id, ok |-> TRUE]
        /\ layer[id].customMaskLayers
        /\ Len(Providers(layer[id], id)) = 2
        /\ Providers(layer[id], id) # InStackOrder(Providers(layer[id], id))
        /\ layer[id].contextOperation = SOURCE_IN

====
